---------------------------- MODULE Spec2Model ----------------------------
(***************************************************************************)
(* A model of the tutorial unique_ptr<T, Deleter> of this repository       *)
(* (src/unnamed/part_000, lines 57-138; the single-parameter variant is    *)
(* src/_codes/implement-unique-ptr.cc).                                    *)
(*                                                                         *)
(* A handle is a C++ object: it is not yet constructed ("unborn"), alive   *)
(* ("live") or destroyed ("dead").  Its two data members are ptr_ and      *)
(* deleter_.  Resources are the objects the raw pointers point to; a       *)
(* pointer is modelled by the identity of the resource, 0 being nullptr.   *)
(* The object that `new` makes for the owning constructor of handle h is   *)
(* resource h, so every owning construction is given a fresh resource;     *)
(* likewise the custom deleter passed to the constructor of handle h is    *)
(* deleter h, so all custom deleters are distinguishable.                  *)
(* Every invocation of a deleter is logged, per pointer it is invoked on.   *)
(*                                                                         *)
(* Spec      the member functions that change a handle, in any order       *)
(* FairSpec  Spec, every live handle being destroyed in the end            *)
(* ObsSpec   Spec with the observers get, operator*, operator-> and        *)
(*           operator bool (src/_drafts/implementing-unique-ptr.md:74)     *)
(* RaceSpec  threads moving from, or calling release() on, one handle,     *)
(*           statement by statement and without a lock                     *)
(* ScopeSpec a function body (test, part_000:144-151; new_box,             *)
(*           part_006:320-327) with its exits and its unwinding            *)
(* AssignSpec a function body that also move-assigns its handles          *)
(* RawSpec   raw pointers passed around: null pointers and the result of   *)
(*           get() given to owning constructors, release() observed        *)
(* TripSpec  release() feeding the owning constructor of a new handle      *)
(* PairSpec  one program run on both variants side by side                 *)
(* SwapSpec  handles that only exchange what they hold                     *)
(***************************************************************************)
EXTENDS Integers, Sequences, FiniteSets, TLC

\* ---------------------------------------------------------------- bounds
NumHandles == 3      \* handle objects that may ever be constructed

\* ------------------------------------------------------------- constants
NullPtr == 0         \* nullptr
DefaultDel == 0      \* a default-initialised Deleter (default_deleter<T>)

Handles == 1 .. NumHandles
Resources == Handles
Pointers == {NullPtr} \cup Resources
CustomDeleters == Handles
MovedDel == NumHandles + 1   \* a moved-from deleter of unspecified value
Deleters == {DefaultDel} \cup CustomDeleters \cup {MovedDel}

VARIABLES
  hs,        \* hs[h] = [st, ptr, del]: lifetime state, ptr_ and deleter_
  rel,       \* rel[p]: the deleter invocations made on pointer p, each [h, del]
  handedOut, \* non-null pointers that release() has returned to its caller
  paired,    \* paired[r]: the deleter supplied when r was given to a handle
  given,     \* resources that an owning constructor has given to a handle
  obs,       \* what the observer called last returned: [op, h, ret, truth, threw]
  thr,       \* thr[t]: a thread working on handle 1: [pc, op, p, early]
  fn,        \* the function whose scope declares the handles:
             \* [pc, exit, stmt, ret, asg]
  basic      \* the same program run with the single-parameter unique_ptr:
             \* [hs, deleted, got]

vars == <<hs, rel, handedOut, paired, given, obs, thr, fn, basic>>

Unborn == [st |-> "unborn", ptr |-> NullPtr, del |-> DefaultDel]
Dead == [st |-> "dead", ptr |-> NullPtr, del |-> DefaultDel]
Obj(p, d) == [st |-> "live", ptr |-> p, del |-> d]

Live(h) == hs[h].st = "live"
IsUnborn(h) == hs[h].st = "unborn"
\* handles are numbered in the order of their construction
NextBorn(h) == IsUnborn(h) /\ \A g \in DOMAIN hs : g < h => ~IsUnborn(g)

\* the object a new-expression makes for the constructor of handle h
New(h) == h
\* the custom deleter object passed to the constructor of handle h
NewDeleter(h) == h

\* ------------------------------------------------ the member functions
\* Each operator is the body of one member function, from the state of the
\* objects involved to their state afterwards (and the calls it makes).

\* unique_ptr() and unique_ptr(std::nullptr_t)
ctor_empty == Obj(NullPtr, DefaultDel)

\* an owning constructor that leaves ptr_ null whatever it is given
ctor_ptr_drops(p) == Obj(NullPtr, DefaultDel)

\* explicit unique_ptr(T* p)
ctor_ptr(p) == Obj(p, DefaultDel)

\* a constructor that forgets the member initialiser deleter_(d)
ctor_ptr_del_no_deleter(p, d) == Obj(p, DefaultDel)

\* unique_ptr(T* p, const Deleter& d) and unique_ptr(T* p, Deleter&& d)
ctor_ptr_del(p, d) == Obj(p, d)

\* the values std::move(u.deleter_) may leave in u.deleter_: a trivially
\* movable deleter keeps its value, any other is valid but unspecified
moved_from(d) == {d, MovedDel}

\* a move constructor without the member initialiser of deleter_
ctor_move_no_deleter(u, m) ==
  [this |-> Obj(u.ptr, DefaultDel), u |-> Obj(NullPtr, u.del)]

\* a move constructor that forgets u.ptr_ = nullptr
ctor_move_keeps_source(u, m) ==
  [this |-> Obj(u.ptr, u.del), u |-> Obj(u.ptr, m)]

\* unique_ptr(unique_ptr&& u): the new object, and u after u.ptr_ = nullptr
ctor_move(u, m) ==
  [this |-> Obj(u.ptr, u.del), u |-> Obj(NullPtr, m)]

\* a converting constructor that empties u without taking its pointer
ctor_convert_drops(u, m) ==
  [this |-> Obj(NullPtr, u.del), u |-> Obj(NullPtr, m)]

\* a converting constructor that forgets u.ptr_ = nullptr
ctor_convert_keeps_source(u, m) ==
  [this |-> Obj(u.ptr, u.del), u |-> Obj(u.ptr, m)]

\* template unique_ptr(unique_ptr<U, E>&& u): same member initialisers
ctor_convert(u, m) ==
  [this |-> Obj(u.ptr, u.del), u |-> Obj(NullPtr, m)]

\* member initialisers that take the pointer with std::exchange(u.ptr_,
\* nullptr), so that reading and emptying u are one step
ctor_move_init_exchange(u, m) ==
  [this |-> Obj(u.ptr, u.del), u |-> Obj(NullPtr, m)]

\* the member initialisers of unique_ptr(unique_ptr&& u) alone:
\* ptr_(u.ptr_), deleter_(std::move(u.deleter_)); u.ptr_ is only read
ctor_move_init(u, m) ==
  [this |-> Obj(u.ptr, u.del), u |-> Obj(u.ptr, m)]

\* the body of unique_ptr(unique_ptr&& u) alone: u.ptr_ = nullptr
ctor_move_body(u) == Obj(NullPtr, u.del)

\* a swap written as a copy: this takes what other has, other keeps it
swap_copies(this, other) ==
  [this |-> Obj(other.ptr, other.del), other |-> other]

\* a swap that forgets swap(deleter_, other.deleter_)
swap_ptr_only(this, other) ==
  [this |-> Obj(other.ptr, this.del), other |-> Obj(this.ptr, other.del)]

\* void swap(unique_ptr& other)
swap(this, other) ==
  [this |-> Obj(other.ptr, other.del), other |-> Obj(this.ptr, this.del)]

\* a non-member swap whose body is a.swap(a)
swap_nm_self(a, b) ==
  LET c == swap(a, a) IN [a |-> c.this, b |-> b]

\* template swap(unique_ptr<T, D>& a, unique_ptr<T, D>& b) { a.swap(b); }
swap_nm(a, b) ==
  LET c == swap(a, b) IN [a |-> c.this, b |-> c.other]

\* a move assignment that takes the pointer of u but leaves the deleters
move_assign_ptr_only(this, u) ==
  [this |-> Obj(u.ptr, this.del), u |-> Obj(this.ptr, u.del)]

\* a move assignment that overwrites this and empties u
move_assign_overwrite(this, u) ==
  [this |-> Obj(u.ptr, u.del), u |-> Obj(NullPtr, u.del)]

\* unique_ptr& operator=(unique_ptr&& u) { swap(u); return *this; }
move_assign(this, u) ==
  LET s == swap(this, u) IN [this |-> s.this, u |-> s.other]

\* a destructor without the if (ptr_) test
dtor_calls_unchecked(this) == << [res |-> this.ptr, del |-> this.del] >>

\* a destructor with the test inverted
dtor_calls_inverted(this) ==
  IF this.ptr = NullPtr THEN << [res |-> this.ptr, del |-> this.del] >>
                        ELSE << >>

\* ~unique_ptr(): the deleter invocations the destructor makes, in order,
\* each [res, del]
dtor_calls(this) ==
  IF this.ptr # NullPtr THEN << [res |-> this.ptr, del |-> this.del] >>
                        ELSE << >>

\* a get that returns nullptr whatever the handle holds
get_nothing(this) == NullPtr

\* T* get() const
get(this) == this.ptr

\* a dereference that tests for emptiness and throws
operator_star_checked(this) ==
  [ret |-> this.ptr, threw |-> this.ptr = NullPtr]

\* T& operator*() const noexcept { return *ptr_; }: the object referred to,
\* named by its address (for an empty handle: a reference to no object, the
\* use of which is the caller's undefined behaviour); nothing is thrown
operator_star(this) == [ret |-> this.ptr, threw |-> FALSE]

\* a member access that tests for emptiness and throws
operator_arrow_checked(this) ==
  [ret |-> this.ptr, threw |-> this.ptr = NullPtr]

\* T* operator->() const noexcept { return ptr_; }
operator_arrow(this) == [ret |-> this.ptr, threw |-> FALSE]

\* explicit operator bool() const noexcept { return ptr_ == nullptr; }
operator_bool(this) == this.ptr = NullPtr

\* a release that also puts a default deleter in place of deleter_
release_resets_deleter(this) ==
  [this |-> Obj(NullPtr, DefaultDel), ret |-> this.ptr, calls |-> << >>]

\* a release that returns the pointer without ptr_ = nullptr
release_keeps_ptr(this) ==
  [this |-> this, ret |-> this.ptr, calls |-> << >>]

\* a release that deletes the object it gives up, as a reset would
release_deletes(this) ==
  [this |-> Obj(NullPtr, this.del), ret |-> this.ptr,
   calls |-> IF this.ptr # NullPtr
             THEN << [res |-> this.ptr, del |-> this.del] >> ELSE << >>]

\* T* release(): the object afterwards, the returned pointer, deleter calls
release(this) ==
  [this |-> Obj(NullPtr, this.del), ret |-> this.ptr, calls |-> << >>]

\* the first statement of release() alone: T* p = ptr_
release_read(this) == this.ptr

\* the second statement of release() alone: ptr_ = nullptr
release_write(this) == Obj(NullPtr, this.del)

\* ----------- the single-parameter variant (_codes/implement-unique-ptr.cc)
\* Its objects have the one data member ptr_; its destructor runs a
\* delete-expression where the other variant calls deleter_.
BasicUnborn == [st |-> "unborn", ptr |-> NullPtr]
BasicDead == [st |-> "dead", ptr |-> NullPtr]
BasicObj(p) == [st |-> "live", ptr |-> p]

\* unique_ptr() and unique_ptr(std::nullptr_t)
basic_ctor_empty == BasicObj(NullPtr)

\* explicit unique_ptr(T* p)
basic_ctor_ptr(p) == BasicObj(p)

\* unique_ptr(unique_ptr&& u)
basic_ctor_move(u) == [this |-> BasicObj(u.ptr), u |-> BasicObj(NullPtr)]

\* void swap(unique_ptr& other)
basic_swap(this, other) ==
  [this |-> BasicObj(other.ptr), other |-> BasicObj(this.ptr)]

\* unique_ptr& operator=(unique_ptr&& u)
basic_move_assign(this, u) ==
  LET c == basic_swap(this, u) IN [this |-> c.this, u |-> c.other]

\* ~unique_ptr(): the pointers the destructor deletes, in order
basic_dtor_deletes(this) ==
  IF this.ptr # NullPtr THEN << this.ptr >> ELSE << >>

\* T* get() const
basic_get(this) == this.ptr

\* ---------------------------------------------------------------- state
\* no observer has been called since the last change
NoObs == [op |-> "none", h |-> NullPtr, ret |-> NullPtr, truth |-> FALSE,
          threw |-> FALSE]

\* the threads that may work on handle 1, each with a handle of its own
Threads == Handles \ {1}
Idle == [pc |-> "idle", op |-> "none", p |-> NullPtr, early |-> FALSE]

\* the function body is executing
NoAsg == [d |-> NullPtr, s |-> NullPtr, old |-> NullPtr]
Running == [pc |-> "run", exit |-> "none", stmt |-> "none", ret |-> NullPtr,
            asg |-> NoAsg]

\* the single-parameter variant before the program has run: no handle is
\* constructed, nothing is deleted and get() has returned nothing
NoBasic ==
  [hs |-> [h \in Handles |-> BasicUnborn],
   deleted |-> [p \in Pointers |-> << >>],
   got |-> NullPtr]

Init ==
  /\ hs = [h \in Handles |-> Unborn]
  /\ rel = [p \in Pointers |-> << >>]
  /\ handedOut = {}
  /\ paired = [r \in Resources |-> DefaultDel]
  /\ given = {}
  /\ obs = NoObs
  /\ thr = [t \in Threads |-> Idle]
  /\ fn = Running
  /\ basic = NoBasic

\* the log after handle h has made the deleter invocations in calls, a
\* sequence of [res, del]
RECURSIVE InvokedOn(_, _, _)
InvokedOn(lg, h, calls) ==
  IF calls = << >> THEN lg
  ELSE InvokedOn([lg EXCEPT ![Head(calls).res] =
                    Append(@, [h |-> h, del |-> Head(calls).del])],
                 h, Tail(calls))

Invoked(h, calls) == InvokedOn(rel, h, calls)

\* unique_ptr<A> a;   unique_ptr<A> c = nullptr;
ConstructEmpty(h) ==
  /\ NextBorn(h)
  /\ hs' = [hs EXCEPT ![h] = ctor_empty]
  /\ UNCHANGED <<rel, handedOut, paired, given>>
  /\ obs' = NoObs /\ UNCHANGED <<thr, fn, basic>>

\* unique_ptr<A> d(new A);
ConstructOwning(h) ==
  /\ NextBorn(h)
  /\ hs' = [hs EXCEPT ![h] = ctor_ptr(New(h))]
  /\ paired' = [paired EXCEPT ![New(h)] = DefaultDel]
  /\ given' = given \cup {New(h)}
  /\ UNCHANGED <<rel, handedOut>>
  /\ obs' = NoObs /\ UNCHANGED <<thr, fn, basic>>

\* unique_ptr<A, D> d(new A, del);
ConstructWithDeleter(h) ==
  /\ NextBorn(h)
  /\ hs' = [hs EXCEPT ![h] = ctor_ptr_del(New(h), NewDeleter(h))]
  /\ paired' = [paired EXCEPT ![New(h)] = NewDeleter(h)]
  /\ given' = given \cup {New(h)}
  /\ UNCHANGED <<rel, handedOut>>
  /\ obs' = NoObs /\ UNCHANGED <<thr, fn, basic>>

\* unique_ptr<A> h(std::move(u));
MoveConstruct(h, u) ==
  /\ NextBorn(h) /\ Live(u)
  /\ \E m \in moved_from(hs[u].del) :
       LET c == ctor_move(hs[u], m) IN
         hs' = [hs EXCEPT ![h] = c.this, ![u] = c.u]
  /\ UNCHANGED <<rel, handedOut, paired, given>>
  /\ obs' = NoObs /\ UNCHANGED <<thr, fn, basic>>

\* unique_ptr<Base> h(std::move(u)) with u a unique_ptr<Derived, E>
ConvertMoveConstruct(h, u) ==
  /\ NextBorn(h) /\ Live(u)
  /\ \E m \in moved_from(hs[u].del) :
       LET c == ctor_convert(hs[u], m) IN
         hs' = [hs EXCEPT ![h] = c.this, ![u] = c.u]
  /\ UNCHANGED <<rel, handedOut, paired, given>>
  /\ obs' = NoObs /\ UNCHANGED <<thr, fn, basic>>

\* d = std::move(s);   (s may be d itself: this and u are then one object,
\* which is left as the assignment leaves u)
MoveAssign(d, s) ==
  /\ Live(d) /\ Live(s)
  /\ LET c == move_assign(hs[d], hs[s]) IN
       hs' = [hs EXCEPT ![d] = c.this, ![s] = c.u]
  /\ UNCHANGED <<rel, handedOut, paired, given>>
  /\ obs' = NoObs /\ UNCHANGED <<thr, fn, basic>>

\* a.swap(b);   (b may be a itself)
Swap(a, b) ==
  /\ Live(a) /\ Live(b)
  /\ LET c == swap(hs[a], hs[b]) IN
       hs' = [hs EXCEPT ![a] = c.this, ![b] = c.other]
  /\ UNCHANGED <<rel, handedOut, paired, given>>
  /\ obs' = NoObs /\ UNCHANGED <<thr, fn, basic>>

\* T* p = h.release();
Release(h) ==
  /\ Live(h)
  /\ LET c == release(hs[h]) IN
       /\ hs' = [hs EXCEPT ![h] = c.this]
       /\ rel' = Invoked(h, c.calls)
       /\ handedOut' = handedOut \cup ({c.ret} \ {NullPtr})
  /\ UNCHANGED <<paired, given>>
  /\ obs' = NoObs /\ UNCHANGED <<thr, fn, basic>>

\* h goes out of scope: ~unique_ptr()
Destroy(h) ==
  /\ Live(h)
  /\ rel' = Invoked(h, dtor_calls(hs[h]))
  /\ hs' = [hs EXCEPT ![h] = Dead]
  /\ UNCHANGED <<handedOut, paired, given>>
  /\ obs' = NoObs /\ UNCHANGED <<thr, fn, basic>>

Next ==
  \/ \E h \in Handles : ConstructEmpty(h)
  \/ \E h \in Handles : ConstructOwning(h)
  \/ \E h \in Handles : ConstructWithDeleter(h)
  \/ \E h, u \in Handles : MoveConstruct(h, u)
  \/ \E h, u \in Handles : ConvertMoveConstruct(h, u)
  \/ \E d, s \in Handles : MoveAssign(d, s)
  \/ \E a, b \in Handles : Swap(a, b)
  \/ \E h \in Handles : Release(h)
  \/ \E h \in Handles : Destroy(h)

Spec == Init /\ [][Next]_vars

\* every live handle is eventually destroyed (its scope ends)
FairSpec == Spec /\ \A h \in Handles : WF_vars(Destroy(h))

\* ------------------------------------------------------- the observers
MaxObserved == 2     \* handles constructed in a run that calls observers

Observed == 1 .. MaxObserved

\* T* p = h.get();
Get(h) ==
  /\ Live(h)
  /\ obs' = [op |-> "get", h |-> h, ret |-> get(hs[h]), truth |-> FALSE,
             threw |-> FALSE]
  /\ UNCHANGED <<hs, rel, handedOut, paired, given, thr, fn, basic>>

\* T& x = *h;   (no test of ptr_ guards the call)
Deref(h) ==
  /\ Live(h)
  /\ LET c == operator_star(hs[h]) IN
       obs' = [op |-> "deref", h |-> h, ret |-> c.ret, truth |-> FALSE,
               threw |-> c.threw]
  /\ UNCHANGED <<hs, rel, handedOut, paired, given, thr, fn, basic>>

\* h->member   (no test of ptr_ guards the call)
Arrow(h) ==
  /\ Live(h)
  /\ LET c == operator_arrow(hs[h]) IN
       obs' = [op |-> "arrow", h |-> h, ret |-> c.ret, truth |-> FALSE,
               threw |-> c.threw]
  /\ UNCHANGED <<hs, rel, handedOut, paired, given, thr, fn, basic>>

\* if (h) ...
Bool(h) ==
  /\ Live(h)
  /\ obs' = [op |-> "bool", h |-> h, ret |-> NullPtr,
             truth |-> operator_bool(hs[h]), threw |-> FALSE]
  /\ UNCHANGED <<hs, rel, handedOut, paired, given, thr, fn, basic>>

\* every member function, observers included, on at most MaxObserved handles
ObsNext ==
  \/ \E h \in Observed : ConstructEmpty(h)
  \/ \E h \in Observed : ConstructOwning(h)
  \/ \E h \in Observed : ConstructWithDeleter(h)
  \/ \E h \in Observed, u \in Handles : MoveConstruct(h, u)
  \/ \E h \in Observed, u \in Handles : ConvertMoveConstruct(h, u)
  \/ \E d, s \in Handles : MoveAssign(d, s)
  \/ \E a, b \in Handles : Swap(a, b)
  \/ \E h \in Handles : Release(h)
  \/ \E h \in Handles : Destroy(h)
  \/ \E h \in Handles : Get(h)
  \/ \E h \in Handles : Deref(h)
  \/ \E h \in Handles : Arrow(h)
  \/ \E h \in Handles : Bool(h)

ObsSpec == Init /\ [][ObsNext]_vars

\* -------------------------------------- threads without external locking
\* Handle 1 is shared; thread t builds its own handle t from it, either by
\* unique_ptr<A> mine(std::move(shared)) or by
\* unique_ptr<A> mine(shared.release()).  Nothing orders the statements of
\* one thread against those of another.  thr[t].early records the schedule:
\* the first statement of t ran before any thread had stored nullptr.
Shared == 1
NoStoreYet == \A u \in Threads : thr[u].pc \in {"idle", "moving", "releasing"}

\* thread t: the member initialisers of its move constructor
MoveInit(t) ==
  /\ thr[t].pc = "idle" /\ Live(Shared) /\ IsUnborn(t)
  /\ \E m \in moved_from(hs[Shared].del) :
       LET c == ctor_move_init(hs[Shared], m) IN
         hs' = [hs EXCEPT ![t] = c.this, ![Shared] = c.u]
  /\ thr' = [thr EXCEPT ![t] = [pc |-> "moving", op |-> "move",
                                p |-> NullPtr, early |-> NoStoreYet]]
  /\ UNCHANGED <<rel, handedOut, paired, given, obs, fn, basic>>

\* thread t: the body of its move constructor
MoveBody(t) ==
  /\ thr[t].pc = "moving"
  /\ hs' = [hs EXCEPT ![Shared] = ctor_move_body(hs[Shared])]
  /\ thr' = [thr EXCEPT ![t].pc = "done"]
  /\ UNCHANGED <<rel, handedOut, paired, given, obs, fn, basic>>

\* thread t inside shared.release(): T* p = ptr_
ReleaseRead(t) ==
  /\ thr[t].pc = "idle" /\ Live(Shared) /\ IsUnborn(t)
  /\ thr' = [thr EXCEPT ![t] = [pc |-> "releasing", op |-> "release",
                                p |-> release_read(hs[Shared]),
                                early |-> NoStoreYet]]
  /\ UNCHANGED <<hs, rel, handedOut, paired, given, obs, fn, basic>>

\* thread t inside shared.release(): ptr_ = nullptr
ReleaseWrite(t) ==
  /\ thr[t].pc = "releasing"
  /\ hs' = [hs EXCEPT ![Shared] = release_write(hs[Shared])]
  /\ thr' = [thr EXCEPT ![t].pc = "returning"]
  /\ UNCHANGED <<rel, handedOut, paired, given, obs, fn, basic>>

\* thread t: release() returns p and the thread's own handle adopts it
Adopt(t) ==
  /\ thr[t].pc = "returning"
  /\ hs' = [hs EXCEPT ![t] = ctor_ptr(thr[t].p)]
  /\ handedOut' = handedOut \cup ({thr[t].p} \ {NullPtr})
  /\ thr' = [thr EXCEPT ![t].pc = "done"]
  /\ UNCHANGED <<rel, paired, given, obs, fn, basic>>

\* thread t ends: its own handle goes out of scope
ThreadExit(t) == thr[t].pc = "done" /\ Destroy(t)

\* the threads are joined and the shared handle goes out of scope
JoinAndDestroy ==
  /\ \A t \in Threads : thr[t].pc \in {"idle", "done"}
  /\ Destroy(Shared)

\* the pointer thread t has taken from the shared handle
Obtained(t) == IF thr[t].op = "move" THEN hs[t].ptr ELSE thr[t].p
\* the threads whose read came before every store of nullptr
EarlyThreads == {t \in Threads : thr[t].early}

RaceNext ==
  \/ ConstructOwning(Shared)
  \/ ConstructWithDeleter(Shared)
  \/ \E t \in Threads : MoveInit(t)
  \/ \E t \in Threads : MoveBody(t)
  \/ \E t \in Threads : ReleaseRead(t)
  \/ \E t \in Threads : ReleaseWrite(t)
  \/ \E t \in Threads : Adopt(t)
  \/ \E t \in Threads : ThreadExit(t)
  \/ JoinAndDestroy

RaceSpec == Init /\ [][RaceNext]_vars

TypeOK ==
  /\ \A h \in Handles : hs[h].ptr \in Pointers /\ hs[h].del \in Deleters
  /\ given \subseteq Resources /\ handedOut \subseteq Resources

\* ------------------------------------------------------------ vocabulary
Owning(h) == Live(h) /\ hs[h].ptr # NullPtr
Empty(h) == Live(h) /\ hs[h].ptr = NullPtr
LiveHandles == {h \in DOMAIN hs : Live(h)}
Owners == {h \in DOMAIN hs : Owning(h)}
Unborns == {h \in DOMAIN hs : IsUnborn(h)}
Releases(r) == Len(rel[r])
NoneLive == \A h \in DOMAIN hs : ~Live(h)
\* the handles other than a and b are as they were
OthersSame(a, b) == \A g \in Handles \ {a, b} : hs'[g] = hs[g]

\* ------------------------------------------------------ a function scope
\* A function body declares handles one after another, swaps them, calls
\* functions that may throw, and is left by an exception, by a return, or
\* by return h.release(); on the way out the handles are destroyed in the
\* reverse order of their declaration.  fn.stmt is the statement of the
\* body executed last, fn.exit the way the body was left, fn.ret the
\* pointer returned to the caller.
MaxScope == 4        \* handles a function body may declare

ScopeHandles == 1 .. MaxScope

ScopeInit ==
  /\ hs = [h \in ScopeHandles |-> Unborn]
  /\ rel = [p \in {NullPtr} \cup ScopeHandles |-> << >>]
  /\ handedOut = {}
  /\ paired = [r \in ScopeHandles |-> DefaultDel]
  /\ given = {}
  /\ obs = NoObs
  /\ thr = [t \in Threads |-> Idle]
  /\ fn = Running
  /\ basic = NoBasic

\* unique_ptr<A> a;   unique_ptr<A> c = nullptr;
DeclareEmpty(h) ==
  /\ fn.pc = "run" /\ NextBorn(h)
  /\ hs' = [hs EXCEPT ![h] = ctor_empty]
  /\ fn' = [fn EXCEPT !.stmt = "declare"]
  /\ UNCHANGED <<rel, handedOut, paired, given, obs, thr, basic>>

\* unique_ptr<A> d = unique_ptr<A>(new A);   the temporary is either
\* elided or moved from and destroyed
DeclareFromTemporary(h) ==
  /\ fn.pc = "run" /\ NextBorn(h)
  /\ \E elided \in BOOLEAN :
       LET tmp == ctor_ptr(New(h)) IN
         IF elided
         THEN hs' = [hs EXCEPT ![h] = tmp] /\ rel' = rel
         ELSE \E m \in moved_from(tmp.del) :
                LET c == ctor_move(tmp, m) IN
                  /\ hs' = [hs EXCEPT ![h] = c.this]
                  /\ rel' = Invoked(h, dtor_calls(c.u))
  /\ paired' = [paired EXCEPT ![New(h)] = DefaultDel]
  /\ given' = given \cup {New(h)}
  /\ fn' = [fn EXCEPT !.stmt = "declare"]
  /\ UNCHANGED <<handedOut, obs, thr, basic>>

\* using std::swap; swap(a, b);
NonMemberSwap(a, b) ==
  /\ fn.pc = "run" /\ Live(a) /\ Live(b)
  /\ LET c == swap_nm(hs[a], hs[b]) IN
       hs' = IF a = b THEN hs ELSE [hs EXCEPT ![a] = c.a, ![b] = c.b]
  /\ fn' = [fn EXCEPT !.stmt = "swap"]
  /\ UNCHANGED <<rel, handedOut, paired, given, obs, thr, basic>>

\* box->width = calculate_width();   the called function throws
Throw(h) ==
  /\ fn.pc = "run" /\ Live(h)
  /\ fn' = [fn EXCEPT !.pc = "unwind", !.exit = "throw", !.stmt = "call"]
  /\ UNCHANGED <<hs, rel, handedOut, paired, given, obs, thr, basic>>

\* the body ends, or returns early, without releasing anything
Return ==
  /\ fn.pc = "run"
  /\ fn' = [fn EXCEPT !.pc = "unwind", !.exit = "return"]
  /\ UNCHANGED <<hs, rel, handedOut, paired, given, obs, thr, basic>>

\* return box->release();   (new_box; meant is the release() of the handle)
ReturnRelease(h) ==
  /\ fn.pc = "run" /\ Live(h)
  /\ LET c == release(hs[h]) IN
       /\ hs' = [hs EXCEPT ![h] = c.this]
       /\ rel' = Invoked(h, c.calls)
       /\ handedOut' = handedOut \cup ({c.ret} \ {NullPtr})
       /\ fn' = [fn EXCEPT !.pc = "unwind", !.exit = "release",
                           !.stmt = "release", !.ret = c.ret]
  /\ UNCHANGED <<paired, given, obs, thr, basic>>

\* leaving the scope: the handle declared last among the live ones is
\* destroyed
Unwind(h) ==
  /\ fn.pc = "unwind"
  /\ \A g \in LiveHandles : g <= h
  /\ Destroy(h)

\* every handle of the scope is destroyed: control is back in the caller
Left ==
  /\ fn.pc = "unwind" /\ NoneLive
  /\ fn' = [fn EXCEPT !.pc = "left"]
  /\ UNCHANGED <<hs, rel, handedOut, paired, given, obs, thr, basic>>

\* test(): a, b and c are constructed empty and d, the fourth handle
\* declared, is the one constructed owning
TestOwner == 4
TestScopeLeft ==
  /\ fn.pc = "left" /\ fn.exit = "return"
  /\ given = {New(TestOwner)}
  /\ \A h \in 1 .. TestOwner : hs[h].st = "dead"

ScopeNext ==
  \/ \E h \in ScopeHandles : DeclareEmpty(h)
  \/ \E h \in ScopeHandles : DeclareFromTemporary(h)
  \/ \E a, b \in ScopeHandles : NonMemberSwap(a, b)
  \/ \E h \in ScopeHandles : Throw(h)
  \/ Return
  \/ \E h \in ScopeHandles : ReturnRelease(h)
  \/ \E h \in ScopeHandles : Unwind(h)
  \/ Left

ScopeSpec == ScopeInit /\ [][ScopeNext]_vars

\* ------------------------------------------- raw pointers in the open
\* The caller keeps the pointer that get() or release() returned (in obs)
\* and may construct a handle from it, or from a null pointer: the owning
\* constructors take whatever pointer they are given.
MaxRaw == 2          \* handles constructed in a run that passes raw pointers

Raws == 1 .. MaxRaw

\* unique_ptr<A> h(static_cast<A*>(nullptr));
ConstructNull(h) ==
  /\ NextBorn(h)
  /\ hs' = [hs EXCEPT ![h] = ctor_ptr(NullPtr)]
  /\ obs' = NoObs
  /\ UNCHANGED <<rel, handedOut, paired, given, thr, fn, basic>>

\* unique_ptr<A, D> h(static_cast<A*>(nullptr), del);
ConstructNullWithDeleter(h) ==
  /\ NextBorn(h)
  /\ hs' = [hs EXCEPT ![h] = ctor_ptr_del(NullPtr, NewDeleter(h))]
  /\ obs' = NoObs
  /\ UNCHANGED <<rel, handedOut, paired, given, thr, fn, basic>>

\* T* p = u.get(); unique_ptr<A> g(p);   or   unique_ptr<A, D> g(p, del);
AdoptGot(g) ==
  /\ NextBorn(g) /\ obs.op = "get"
  /\ \/ hs' = [hs EXCEPT ![g] = ctor_ptr(obs.ret)]
     \/ hs' = [hs EXCEPT ![g] = ctor_ptr_del(obs.ret, NewDeleter(g))]
  /\ obs' = NoObs
  /\ UNCHANGED <<rel, handedOut, paired, given, thr, fn, basic>>

\* T* p = h.release();   with p kept by the caller
ReleaseTo(h) ==
  /\ Live(h)
  /\ LET c == release(hs[h]) IN
       /\ hs' = [hs EXCEPT ![h] = c.this]
       /\ rel' = Invoked(h, c.calls)
       /\ handedOut' = handedOut \cup ({c.ret} \ {NullPtr})
       /\ obs' = [op |-> "release", h |-> h, ret |-> c.ret,
                  truth |-> FALSE, threw |-> FALSE]
  /\ UNCHANGED <<paired, given, thr, fn, basic>>

RawNext ==
  \/ \E h \in Raws : ConstructEmpty(h)
  \/ \E h \in Raws : ConstructOwning(h)
  \/ \E h \in Raws : ConstructWithDeleter(h)
  \/ \E h \in Raws : ConstructNull(h)
  \/ \E h \in Raws : ConstructNullWithDeleter(h)
  \/ \E h \in Raws, u \in Handles : MoveConstruct(h, u)
  \/ \E h \in Handles : Get(h)
  \/ \E g \in Raws : AdoptGot(g)
  \/ \E h \in Handles : ReleaseTo(h)
  \/ \E h \in Handles : Destroy(h)

RawSpec == Init /\ [][RawNext]_vars

\* --------------------------------------------- relinquish and adopt
\* The statement  unique_ptr<A, D> g(h.release(), d);  with d the deleter
\* of h: release() runs first, then the owning constructor of g.

\* unique_ptr<A, D> g(h.release(), d);
RoundTrip(g, h) ==
  /\ NextBorn(g) /\ Live(h)
  /\ LET r == release(hs[h])
         c == ctor_ptr_del(r.ret, hs[h].del)
     IN /\ hs' = [hs EXCEPT ![h] = r.this, ![g] = c]
        /\ rel' = Invoked(h, r.calls)
        /\ handedOut' = handedOut \cup ({r.ret} \ {NullPtr})
        /\ paired' = [x \in DOMAIN paired |->
                        IF x = r.ret THEN hs[h].del ELSE paired[x]]
        /\ obs' = [op |-> "release", h |-> h, ret |-> r.ret,
                   truth |-> FALSE, threw |-> FALSE]
  /\ UNCHANGED <<given, thr, fn, basic>>

TripNext ==
  \/ \E h \in Handles : ConstructEmpty(h)
  \/ \E h \in Handles : ConstructOwning(h)
  \/ \E h \in Handles : ConstructWithDeleter(h)
  \/ \E g, h \in Handles : RoundTrip(g, h)
  \/ \E g, h \in Handles : MoveConstruct(g, h)
  \/ \E h \in Handles : Destroy(h)

TripSpec == Init /\ [][TripNext]_vars

\* ------------------------------------------- the two variants side by side
\* One program runs twice: on unique_ptr<A> of part_000, whose deleter is
\* default_deleter<A>, and on unique_ptr<A> of the single-parameter variant.
\* Each action is one statement of the program, executed in both runs;
\* which statement may come next is decided by the lifetimes of the
\* program's handles, which the statements alone determine.
MaxPair == 3         \* handles constructed in the side-by-side run
Pairs == 1 .. MaxPair

RECURSIVE DeletedOn(_, _, _)
DeletedOn(lg, h, ps) ==
  IF ps = << >> THEN lg
  ELSE DeletedOn([lg EXCEPT ![Head(ps)] = Append(@, h)], h, Tail(ps))

PairFrame == UNCHANGED <<handedOut, paired, thr, fn>>

\* unique_ptr<A> h;
PairConstructEmpty(h) ==
  /\ NextBorn(h)
  /\ hs' = [hs EXCEPT ![h] = ctor_empty]
  /\ basic' = [basic EXCEPT !.hs[h] = basic_ctor_empty]
  /\ obs' = NoObs /\ UNCHANGED <<rel, given>> /\ PairFrame

\* unique_ptr<A> h(new A);
PairConstructOwning(h) ==
  /\ NextBorn(h)
  /\ hs' = [hs EXCEPT ![h] = ctor_ptr(New(h))]
  /\ basic' = [basic EXCEPT !.hs[h] = basic_ctor_ptr(New(h))]
  /\ given' = given \cup {New(h)}
  /\ obs' = NoObs /\ UNCHANGED rel /\ PairFrame

\* unique_ptr<A> h(std::move(u));
PairMoveConstruct(h, u) ==
  /\ NextBorn(h) /\ Live(u)
  /\ \E m \in moved_from(hs[u].del) :
       LET c == ctor_move(hs[u], m) IN
         hs' = [hs EXCEPT ![h] = c.this, ![u] = c.u]
  /\ LET b == basic_ctor_move(basic.hs[u]) IN
       basic' = [basic EXCEPT !.hs[h] = b.this, !.hs[u] = b.u]
  /\ obs' = NoObs /\ UNCHANGED <<rel, given>> /\ PairFrame

\* d = std::move(s);
PairMoveAssign(d, s) ==
  /\ Live(d) /\ Live(s)
  /\ LET c == move_assign(hs[d], hs[s]) IN
       hs' = [hs EXCEPT ![d] = c.this, ![s] = c.u]
  /\ LET b == basic_move_assign(basic.hs[d], basic.hs[s]) IN
       basic' = [basic EXCEPT !.hs[d] = b.this, !.hs[s] = b.u]
  /\ obs' = NoObs /\ UNCHANGED <<rel, given>> /\ PairFrame

\* a.swap(b);
PairSwap(a, b) ==
  /\ Live(a) /\ Live(b)
  /\ LET c == swap(hs[a], hs[b]) IN
       hs' = [hs EXCEPT ![a] = c.this, ![b] = c.other]
  /\ LET c == basic_swap(basic.hs[a], basic.hs[b]) IN
       basic' = [basic EXCEPT !.hs[a] = c.this, !.hs[b] = c.other]
  /\ obs' = NoObs /\ UNCHANGED <<rel, given>> /\ PairFrame

\* A* p = h.get();
PairGet(h) ==
  /\ Live(h)
  /\ obs' = [op |-> "get", h |-> h, ret |-> get(hs[h]), truth |-> FALSE,
             threw |-> FALSE]
  /\ basic' = [basic EXCEPT !.got = basic_get(basic.hs[h])]
  /\ UNCHANGED <<hs, rel, given>> /\ PairFrame

\* h goes out of scope
PairDestroy(h) ==
  /\ Live(h)
  /\ rel' = Invoked(h, dtor_calls(hs[h]))
  /\ hs' = [hs EXCEPT ![h] = Dead]
  /\ basic' = [basic EXCEPT
                 !.deleted = DeletedOn(@, h, basic_dtor_deletes(basic.hs[h])),
                 !.hs[h] = BasicDead]
  /\ obs' = NoObs /\ UNCHANGED given /\ PairFrame

PairNext ==
  \/ \E h \in Pairs : PairConstructEmpty(h)
  \/ \E h \in Pairs : PairConstructOwning(h)
  \/ \E h \in Pairs, u \in Handles : PairMoveConstruct(h, u)
  \/ \E d, s \in Handles : PairMoveAssign(d, s)
  \/ \E a, b \in Handles : PairSwap(a, b)
  \/ \E h \in Handles : PairGet(h)
  \/ \E h \in Handles : PairDestroy(h)

PairSpec == Init /\ [][PairNext]_vars

\* ------------------------------------------- exchanges between handles
\* Handles are constructed, exchange what they hold through operator= and
\* swap, and are destroyed; nothing else touches them.
MaxSwap == 3         \* handles constructed in a run of exchanges
Swapped == 1 .. MaxSwap

SwapNext ==
  \/ \E h \in Swapped : ConstructEmpty(h)
  \/ \E h \in Swapped : ConstructOwning(h)
  \/ \E h \in Swapped : ConstructWithDeleter(h)
  \/ \E d, s \in Handles : MoveAssign(d, s)
  \/ \E a, b \in Handles : Swap(a, b)
  \/ \E h \in Handles : Destroy(h)

SwapSpec == Init /\ [][SwapNext]_vars

\* ------------------------------------- a function body with assignments
\* The body also declares handles with a custom deleter and move-assigns
\* one handle to another (or to itself).  fn.asg is the last assignment
\* executed: its destination d, its source s, and old, the pointer the
\* destination held when the assignment began.
MaxAssign == 3       \* handles a function body with assignments declares

Assigned == 1 .. MaxAssign

\* unique_ptr<A, D> d(new A, del);
DeclareWithDeleter(h) ==
  /\ fn.pc = "run" /\ NextBorn(h)
  /\ hs' = [hs EXCEPT ![h] = ctor_ptr_del(New(h), NewDeleter(h))]
  /\ paired' = [paired EXCEPT ![New(h)] = NewDeleter(h)]
  /\ given' = given \cup {New(h)}
  /\ fn' = [fn EXCEPT !.stmt = "declare"]
  /\ UNCHANGED <<rel, handedOut, obs, thr, basic>>

\* d = std::move(s);   (s may be d itself)
Assign(d, s) ==
  /\ fn.pc = "run" /\ Live(d) /\ Live(s)
  /\ LET c == move_assign(hs[d], hs[s]) IN
       hs' = [hs EXCEPT ![d] = c.this, ![s] = c.u]
  /\ fn' = [fn EXCEPT !.stmt = "assign",
                      !.asg = [d |-> d, s |-> s, old |-> hs[d].ptr]]
  /\ UNCHANGED <<rel, handedOut, paired, given, obs, thr, basic>>

AssignNext ==
  \/ \E h \in Assigned : DeclareEmpty(h)
  \/ \E h \in Assigned : DeclareFromTemporary(h)
  \/ \E h \in Assigned : DeclareWithDeleter(h)
  \/ \E d, s \in Assigned : Assign(d, s)
  \/ \E h \in Assigned : Throw(h)
  \/ Return
  \/ \E h \in Assigned : ReturnRelease(h)
  \/ \E h \in Assigned : Unwind(h)
  \/ Left

AssignSpec == ScopeInit /\ [][AssignNext]_vars

\* ------------------------------------------------------------------ C1
\* C1: whatever sequence of constructions, moves, swaps, relinquishments
\* and destructions has run, no resource has had a deleter invoked on it
\* more than once.
C1_NoDoubleRelease == \A r \in Resources : Releases(r) <= 1

\* a resource that travelled to another handle and was released there,
\* after which every handle was destroyed
C1_Witness ==
  /\ NoneLive
  /\ \E r \in Resources : Releases(r) = 1 /\ rel[r][1].h # r

\* ------------------------------------------------------------------ C2
\* C2: no two distinct live handles hold the same non-null pointer.
C2_NoAliasing ==
  \A a, b \in Handles :
    (a # b /\ Owning(a) /\ Owning(b)) => hs[a].ptr # hs[b].ptr

\* two owning handles at once, one of them holding a resource that was
\* given to some other handle
C2_Witness ==
  \E a, b \in Handles :
    a # b /\ Owning(a) /\ Owning(b) /\ hs[a].ptr # New(a)

\* ------------------------------------------------------------------ C3
\* C3 as stated: after a move-construction or a move-assignment from s
\* into d (d in any prior state) s is empty and d holds what s held.
C3_SourceAlwaysEmpty ==
  [][ /\ \A h \in Unborns : \A u \in LiveHandles :
           (MoveConstruct(h, u) \/ ConvertMoveConstruct(h, u)) =>
             /\ hs'[u].ptr = NullPtr
             /\ hs'[h].ptr = hs[u].ptr /\ hs'[h].del = hs[u].del
      /\ \A d \in LiveHandles : \A s \in LiveHandles \ {d} :
           MoveAssign(d, s) =>
             /\ hs'[s].ptr = NullPtr
             /\ hs'[d].ptr = hs[s].ptr /\ hs'[d].del = hs[s].del ]_vars

\* C3 amended: after a move-construction from u the source u is empty and
\* the new handle holds the pointer and deleter u held; after a
\* move-assignment from s into another handle d, d holds the pointer and
\* deleter s held and s holds the pointer and deleter d held, so s is empty
\* exactly when d was empty before.
C3_MoveTransfer ==
  [][ /\ \A h \in Unborns : \A u \in LiveHandles :
           (MoveConstruct(h, u) \/ ConvertMoveConstruct(h, u)) =>
             /\ hs'[u].ptr = NullPtr /\ hs'[u].st = "live"
             /\ hs'[h] = Obj(hs[u].ptr, hs[u].del)
             /\ OthersSame(h, u)
      /\ \A d \in LiveHandles : \A s \in LiveHandles \ {d} :
           MoveAssign(d, s) =>
             /\ hs'[d] = Obj(hs[s].ptr, hs[s].del)
             /\ hs'[s] = Obj(hs[d].ptr, hs[d].del)
             /\ (hs'[s].ptr = NullPtr <=> hs[d].ptr = NullPtr)
             /\ OthersSame(d, s) ]_vars

\* handle 1 was constructed empty and 2 owning, no third handle exists;
\* now 1 holds the resource of 2 and 2 is empty: 2 was moved into 1
C3_Witness ==
  /\ IsUnborn(3) /\ 1 \notin given
  /\ Live(1) /\ hs[1].ptr = New(2) /\ hs[1].del = paired[New(2)]
  /\ Empty(2)

\* ------------------------------------------------------------------ C4
\* C4 as stated: a move-assignment into a destination that owns R_old has,
\* when it returns, invoked the deleter on R_old exactly once, and the
\* destination owns the source's resource.
C4_OldReleasedByAssignment ==
  [][ \A d \in Owners : \A s \in LiveHandles \ {d} :
        MoveAssign(d, s) =>
          /\ Len(rel'[hs[d].ptr]) = 1
          /\ hs'[d].ptr = hs[s].ptr ]_vars

\* C4 amended: a move-assignment into a destination that owns R_old invokes
\* no deleter: when it returns the destination owns the source's resource
\* and R_old, still unreleased, is held by the source together with the
\* deleter the destination had for it.
C4_OldKeptBySource ==
  [][ \A d \in Owners : \A s \in LiveHandles \ {d} :
        MoveAssign(d, s) =>
          /\ rel' = rel
          /\ Len(rel'[hs[d].ptr]) = 0
          /\ hs'[d].ptr = hs[s].ptr
          /\ hs'[s] = hs[d] ]_vars

\* only handles 1 and 2 exist, both were constructed owning, and each now
\* holds the other's resource with nothing released: the state after
\* 1 = std::move(2)
C4_Witness ==
  /\ IsUnborn(3)
  /\ Live(1) /\ hs[1].ptr = New(2)
  /\ Live(2) /\ hs[2].ptr = New(1)
  /\ \A p \in Pointers : rel[p] = << >>

\* ------------------------------------------------------------------ C5
\* C5: move-assigning an owning handle s into an empty handle d leaves
\* d.get() equal to the pointer s held, d with the deleter of s, and s
\* empty, without invoking a deleter; destroying an empty handle invokes
\* no deleter; destroying an owning handle invokes its deleter on its
\* resource, which then has been released exactly once.
C5_MoveAssignIntoEmpty ==
  [][ /\ \A s \in Owners : \A d \in LiveHandles \ Owners :
           MoveAssign(d, s) =>
             /\ get(hs'[d]) = hs[s].ptr /\ hs'[d].del = hs[s].del
             /\ hs'[s].ptr = NullPtr /\ hs'[s].st = "live"
             /\ rel' = rel
      /\ \A h \in LiveHandles \ Owners :
           Destroy(h) => rel' = rel
      /\ \A h \in Owners :
           Destroy(h) =>
             /\ rel'[hs[h].ptr] = << [h |-> h, del |-> hs[h].del] >>
             /\ \A p \in Pointers \ {hs[h].ptr} : rel'[p] = rel[p] ]_vars

\* handle 1 was constructed empty, handle 2 with a resource and a custom
\* deleter, no third handle exists; both are now destroyed and the
\* resource was released once, by handle 1 with that deleter
C5_Witness ==
  /\ IsUnborn(3) /\ given = {New(2)} /\ handedOut = {}
  /\ hs[1].st = "dead" /\ hs[2].st = "dead"
  /\ rel[New(2)] = << [h |-> 1, del |-> NewDeleter(2)] >>
  /\ \A p \in Pointers \ {New(2)} : rel[p] = << >>

\* ------------------------------------------------------------------ C6
\* C6: a resource moved along a chain of handles is released exactly once,
\* at the destruction of the handle that holds it at the time, the last of
\* the chain: a step records a deleter invocation on r only by destroying
\* the holder of r, the destruction of any other handle and every step
\* that destroys nothing (every move) leave the record of r as it is, and
\* r is never recorded twice.
C6_ReleasedAtLastHandle ==
  [][ \A r \in Resources :
        /\ Len(rel'[r]) <= 1
        /\ rel'[r] # rel[r] =>
             \E h \in Handles :
               /\ Owning(h) /\ hs[h].ptr = r /\ hs'[h].st = "dead"
               /\ rel[r] = << >> /\ rel'[r][1].h = h
        /\ \A h \in Handles :
             (Owning(h) /\ hs[h].ptr = r /\ hs'[h].st = "dead") =>
               Len(rel'[r]) = 1
        /\ (\A h \in Handles : hs'[h].st = "dead" => hs[h].st = "dead")
             => rel'[r] = rel[r] ]_vars

\* the resource given to handle 1 was released by handle 3, after handles
\* 1 and 2 had been destroyed without releasing anything
C6_Witness ==
  /\ given = {New(1)} /\ handedOut = {}
  /\ hs[1].st = "dead" /\ hs[2].st = "dead"
  /\ Releases(New(1)) = 1 /\ rel[New(1)][1].h = 3
  /\ \A p \in Pointers \ {New(1)} : rel[p] = << >>

\* ------------------------------------------------------------------ C7
\* C7: when handles are eventually destroyed, every resource that was
\* given to a handle and is never relinquished is eventually released
\* (from some point on every given resource that was not relinquished has
\* been released once), and whenever no handle is alive every such
\* resource has been released.
C7_NoLeak ==
  /\ <>[](\A r \in given \ handedOut : Releases(r) = 1)
  /\ [](NoneLive => \A r \in given \ handedOut : Releases(r) = 1)

\* every handle has been destroyed, a resource given to one of them went
\* through another handle and was released, and none was relinquished
C7_Witness ==
  /\ \A h \in Handles : hs[h].st = "dead"
  /\ handedOut = {}
  /\ Cardinality(given) >= 2
  /\ \A r \in given : Releases(r) = 1
  /\ \E r \in given : rel[r][1].h # r

\* ------------------------------------------------------------------ C8
\* C8: release() on a handle owning R returns R to the caller (R, and only
\* R, joins the pointers handed out) and leaves the handle empty, changes
\* no other handle and invokes no deleter; destroying an empty handle
\* invokes no deleter; and no resource handed out by release() ever has a
\* deleter invoked on it by a handle.
C8_Relinquish ==
  [][ /\ \A h \in Owners :
           Release(h) =>
             /\ handedOut' = handedOut \cup {hs[h].ptr}
             /\ hs[h].ptr \notin handedOut
             /\ hs'[h].ptr = NullPtr /\ hs'[h].st = "live"
             /\ OthersSame(h, h)
             /\ rel' = rel
      /\ \A h \in LiveHandles \ Owners :
           Destroy(h) => rel' = rel /\ handedOut' = handedOut
      /\ \A r \in handedOut' : rel'[r] = << >> ]_vars

\* the only handle ever constructed was given a resource, relinquished it
\* and was destroyed; nothing was released
C8_Witness ==
  /\ IsUnborn(2) /\ hs[1].st = "dead"
  /\ given = {New(1)} /\ handedOut = {New(1)}
  /\ \A p \in Pointers : rel[p] = << >>

\* ------------------------------------------------------------------ C9
\* C9: swapping two owning handles exchanges their pointers and their
\* deleters and invokes no deleter; every owning handle holds the deleter
\* its resource was paired with, and every recorded release of a resource
\* was made once, with the deleter the resource was paired with.
C9_SwapExchanges ==
  [][ /\ \A a \in Owners : \A b \in Owners \ {a} :
           Swap(a, b) =>
             /\ hs'[a].ptr = hs[b].ptr /\ hs'[a].del = hs[b].del
             /\ hs'[b].ptr = hs[a].ptr /\ hs'[b].del = hs[a].del
             /\ rel' = rel
      /\ \A h \in Owners' : hs'[h].del = paired'[hs'[h].ptr]
      /\ \A r \in Resources :
           /\ Len(rel'[r]) <= 1
           /\ \A i \in 1 .. Len(rel'[r]) : rel'[r][i].del = paired'[r] ]_vars

\* only handles 1 and 2 exist, given resources with different deleters;
\* each resource was released once, by the other handle, with its own
\* deleter
C9_Witness ==
  /\ IsUnborn(3)
  /\ paired[New(1)] # paired[New(2)]
  /\ rel[New(1)] = << [h |-> 2, del |-> paired[New(1)]] >>
  /\ rel[New(2)] = << [h |-> 1, del |-> paired[New(2)]] >>

\* ----------------------------------------------------------------- C10
\* C10: destroying a handle that is as its owning constructor left it
\* (holding the resource R and the deleter D it was constructed with, R
\* neither released nor relinquished) invokes D on R exactly once and
\* invokes nothing else.
AsConstructed(h) ==
  /\ Live(h) /\ New(h) \in given /\ New(h) \notin handedOut
  /\ hs[h].ptr = New(h)
  /\ rel[New(h)] = << >>

C10_ConstructThenDestroy ==
  [][ /\ \A h \in Unborns :
           (ConstructOwning(h) \/ ConstructWithDeleter(h)) =>
             /\ AsConstructed(h)'
             /\ hs'[h].del = paired'[New(h)]
             /\ rel' = rel
      /\ \A h \in Owners :
           (AsConstructed(h) /\ Destroy(h)) =>
             /\ rel'[New(h)] = << [h |-> h, del |-> paired[New(h)]] >>
             /\ \A p \in Pointers \ {New(h)} : rel'[p] = rel[p] ]_vars

\* the only handle ever constructed was given a resource and a custom
\* deleter and is destroyed; that deleter was invoked once on the resource
C10_Witness ==
  /\ IsUnborn(2) /\ hs[1].st = "dead"
  /\ handedOut = {}
  /\ rel[New(1)] = << [h |-> 1, del |-> NewDeleter(1)] >>

\* ------------------------------------------------------------------ C11
\* C11: whenever the boolean conversion of a handle has just been
\* evaluated, its value is true exactly when the handle holds an object.
C11_BoolIsNonEmpty ==
  obs.op = "bool" => (obs.truth <=> Owning(obs.h))

\* ------------------------------------------------------------------ C12
\* C12: a handle that holds a resource holds the deleter that was supplied
\* with that resource at its owning construction, and every deleter
\* invocation ever made on a resource was made by that deleter.
C12_DeleterTravels ==
  /\ \A h \in Owners : hs[h].del = paired[hs[h].ptr]
  /\ \A r \in Resources :
       \A i \in 1 .. Len(rel[r]) : rel[r][i].del = paired[r]

\* a resource constructed with a custom deleter in handle 1 has travelled
\* to handle 3 and been released there by that deleter,
\* while another resource is still held with its own deleter
C12_Witness ==
  /\ rel[New(1)] = << [h |-> 3, del |-> NewDeleter(1)] >>
  /\ paired[New(1)] = NewDeleter(1)
  /\ Owning(1) /\ hs[1].ptr = New(2) /\ hs[1].del = paired[New(2)]
  /\ Empty(2)

\* ------------------------------------------------------------------ C13
\* C13: every resource that was given to a handle and has neither been
\* released nor relinquished through release() is held by exactly one
\* live handle.
C13_ExactlyOneOwner ==
  \A r \in given \ handedOut :
    Releases(r) = 0 => Cardinality({h \in LiveHandles : hs[h].ptr = r}) = 1

\* two resources are owned, neither by the handle it was given to, and the
\* third handle is live and empty
C13_Witness ==
  /\ given = {New(1), New(2)} /\ handedOut = {}
  /\ Releases(New(1)) = 0 /\ Releases(New(2)) = 0
  /\ hs[1].ptr = New(2) /\ hs[3].ptr = New(1) /\ Empty(2)

\* ------------------------------------------------------------------ C14
\* C14: no step copies a resource: a handle that holds a resource before
\* and after a step never sees another live handle hold it after the step.
C14_NoDuplication ==
  [][\A a \in Owners : \A b \in Handles \ {a} :
       ~(hs'[a].st = "live" /\ hs'[a].ptr = hs[a].ptr
         /\ hs'[b].st = "live" /\ hs'[b].ptr = hs[a].ptr)]_vars

\* a resource has gone from handle 1 to handle 2 and handle 1, still live,
\* is empty, while handle 3 owns a resource of its own
C14_Witness ==
  /\ Empty(1) /\ Owning(2) /\ hs[2].ptr = New(1)
  /\ Owning(3) /\ hs[3].ptr = New(3)

\* ------------------------------------------------------------------ C15
\* C15: a step invokes a deleter only if it destroys a handle that holds
\* a resource, and then it invokes that handle's deleter once on that
\* resource; a step that destroys an empty handle invokes no deleter.
C15_OnlyDestructionReleases ==
  [][/\ rel' # rel =>
          \E h \in Owners :
            /\ hs'[h].st = "dead"
            /\ rel' = [rel EXCEPT ![hs[h].ptr] =
                         Append(@, [h |-> h, del |-> hs[h].del])]
     /\ \A h \in LiveHandles :
          (Empty(h) /\ hs'[h].st = "dead") => rel' = rel]_vars

\* an empty handle has been destroyed, a pointer has been handed out by
\* release(), a handle has just been dereferenced, and no deleter has run
C15_Witness ==
  /\ hs[1].st = "dead" /\ handedOut = {New(2)}
  /\ obs.op = "deref"
  /\ \A p \in Pointers : rel[p] = << >>

\* ------------------------------------------------------------------ C16
\* C16: a call of get(), operator* or operator-> changes no handle and
\* no ownership record, and get() returns the pointer the handle holds
\* (nullptr when it is empty).
C16_PureObservers ==
  [][obs'.op \in {"get", "deref", "arrow"} =>
       /\ hs' = hs /\ rel' = rel /\ handedOut' = handedOut
       /\ paired' = paired /\ given' = given
       /\ obs'.op = "get" => obs'.ret = hs[obs'.h].ptr]_vars

\* get() has just returned the resource of an owning handle, which still
\* owns it, beside an empty live handle
C16_Witness ==
  /\ obs.op = "get" /\ obs.h = 2 /\ Owning(2) /\ obs.ret = hs[2].ptr
  /\ hs[2].ptr = New(1) /\ Empty(1)

\* ------------------------------------------------------------------ C17
\* C17: with no lock around the calls, every thread whose read of ptr_ of
\* the shared owning handle ran before any thread stored nullptr obtains
\* the resource of that handle; so when the reads of two threads both
\* come first there are two owners, and once every handle is destroyed
\* the resource has been released once per such thread.
C17_RaceDuplicates ==
  /\ \A t \in EarlyThreads :
       thr[t].pc \in {"moving", "releasing", "returning"}
         => Obtained(t) = New(Shared)
  /\ \A t, u \in EarlyThreads :
       (thr[t].pc = "done" /\ thr[u].pc = "done" /\ Live(t) /\ Live(u))
         => (hs[t].ptr = New(Shared) /\ hs[u].ptr = New(Shared))
  /\ (EarlyThreads # {} /\ \A h \in Handles : hs[h].st = "dead")
       => Releases(New(Shared)) = Cardinality(EarlyThreads)

\* two threads, one moving from the shared handle and one calling
\* release() on it, both obtained its resource, and it has been released
\* twice, once by the handle of each
C17_Witness ==
  /\ NoneLive
  /\ thr[2].op = "move" /\ thr[3].op = "release"
  /\ Releases(New(Shared)) = 2
  /\ {rel[New(Shared)][1].h, rel[New(Shared)][2].h} = {2, 3}

\* ------------------------------------------------------------------ C18
\* C18: a resource owned through a handle of a function scope is never
\* both released and handed to the caller and never released twice; once
\* the scope is left by an exception or a plain return it has been
\* released exactly once and nothing was returned, and once it is left by
\* return h.release() the resource returned has been released zero times
\* and every other resource of the scope exactly once.
C18_AccountedOnce ==
  \A r \in given :
    /\ Releases(r) <= 1
    /\ ~(Releases(r) = 1 /\ r \in handedOut)
    /\ fn.pc = "left" =>
         /\ fn.exit \in {"throw", "return"} =>
              (Releases(r) = 1 /\ r \notin handedOut /\ fn.ret = NullPtr)
         /\ fn.exit = "release" =>
              IF fn.ret = r THEN Releases(r) = 0 /\ r \in handedOut
                            ELSE Releases(r) = 1 /\ r \notin handedOut

\* the scope was left through return h.release(): the caller has the
\* resource, which no deleter was invoked on, while a second resource of
\* the scope was released by its handle
C18_Witness ==
  /\ fn.pc = "left" /\ fn.exit = "release" /\ fn.ret = New(1)
  /\ given = {New(1), New(2)} /\ handedOut = {New(1)}
  /\ Releases(New(1)) = 0 /\ Releases(New(2)) = 1

\* ------------------------------------------------------------------ C19
\* C19: operator* and operator-> called on an empty handle throw nothing,
\* return what ptr_ holds (no object) and leave every handle as it was.
C19_EmptyDerefUnchecked ==
  [][(obs'.op \in {"deref", "arrow"} /\ Empty(obs'.h)) =>
       /\ ~obs'.threw /\ obs'.ret = NullPtr
       /\ hs' = hs /\ rel' = rel]_vars

\* an empty handle has just been dereferenced
C19_Witness ==
  /\ obs.op = "deref" /\ Empty(obs.h) /\ ~obs.threw

\* ------------------------------------------------------------------ C20
\* C20: a step of the non-member swap(a, b) changes the handles exactly as
\* a.swap(b) does and invokes no deleter, so two empty handles stay
\* empty; and when the scope of test() (three handles constructed empty,
\* the fourth owning, swaps in between) has been left, exactly one deleter
\* invocation has been made, on the one object of the scope.
C20_NonMemberSwap ==
  /\ [][\A a, b \in LiveHandles :
         NonMemberSwap(a, b) =>
           /\ LET c == swap(hs[a], hs[b]) IN
                hs' = IF a = b THEN hs
                      ELSE [hs EXCEPT ![a] = c.this, ![b] = c.other]
           /\ rel' = rel
           /\ (Empty(a) /\ Empty(b)) =>
                (hs'[a] = hs[a] /\ hs'[b] = hs[b]
                 /\ hs'[a].ptr = NullPtr /\ hs'[b].ptr = NullPtr)]_vars
  /\ [](TestScopeLeft =>
         /\ Releases(New(TestOwner)) = 1
         /\ \A p \in DOMAIN rel \ {New(TestOwner)} : rel[p] = << >>)

\* the scope of test() has been left, its last statement being the swap:
\* the object of d has been released once, by d, and nothing else
C20_Witness ==
  /\ TestScopeLeft /\ fn.stmt = "swap"
  /\ rel[New(TestOwner)] = << [h |-> TestOwner, del |-> DefaultDel] >>
  /\ \A p \in DOMAIN rel \ {New(TestOwner)} : rel[p] = << >>

\* ------------------------------------------------------------------ C21
\* C21: a step is a move-assignment D = std::move(S) exactly when it is
\* the swap D.swap(S); after it D holds the resource and deleter S held, S
\* holds the resource and deleter D held, and no deleter was invoked, for
\* empty and owning D and S alike.
C21_AssignIsSwap ==
  [][\A d, s \in LiveHandles :
       /\ MoveAssign(d, s) <=> Swap(d, s)
       /\ MoveAssign(d, s) =>
            /\ rel' = rel /\ handedOut' = handedOut
            /\ hs'[d] = hs[s] /\ hs'[s] = hs[d]
            /\ OthersSame(d, s)]_vars

\* two handles constructed with different custom deleters hold each
\* other's resource and deleter, and no deleter has been invoked
C21_Witness ==
  /\ IsUnborn(3)
  /\ hs[1] = Obj(New(2), NewDeleter(2)) /\ hs[2] = Obj(New(1), NewDeleter(1))
  /\ paired[New(1)] = NewDeleter(1) /\ paired[New(2)] = NewDeleter(2)
  /\ \A p \in Pointers : rel[p] = << >>

\* ------------------------------------------------------------------ C27
\* C27: a step a.swap(b) is also a step b.swap(a), invokes no deleter, and
\* swapping the two handles again gives back what each held; in every
\* reachable state swap is symmetric in its operands, swapping twice is
\* the identity, and a.swap(a) leaves a as it is.
C27_SwapAlgebra ==
  /\ [][\A a, b \in LiveHandles :
         Swap(a, b) =>
           /\ Swap(b, a)
           /\ rel' = rel /\ handedOut' = handedOut
           /\ LET back == swap(hs'[a], hs'[b]) IN
                back.this = hs[a] /\ back.other = hs[b]]_vars
  /\ [](\A a, b \in LiveHandles :
         LET ab == swap(hs[a], hs[b])
             ba == swap(hs[b], hs[a])
             twice == swap(ab.this, ab.other)
             self == swap(hs[a], hs[a])
         IN /\ ab.this = ba.other /\ ab.other = ba.this
            /\ twice.this = hs[a] /\ twice.other = hs[b]
            /\ self.this = hs[a] /\ self.other = hs[a])

\* handles 2 and 3 hold each other's resource and deleter beside the
\* empty handle 1
C27_Witness ==
  /\ Empty(1)
  /\ hs[2] = Obj(New(3), NewDeleter(3)) /\ hs[3] = Obj(New(2), NewDeleter(2))
  /\ \A p \in Pointers : rel[p] = << >>

\* ------------------------------------------------------------------ C22
\* C22: after D = std::move(S) with D owning R_old, as long as S is alive
\* and has not given R_old up through release(), S holds R_old with its
\* deleter and no deleter has been invoked on it, whether D is destroyed
\* or not; once S is destroyed R_old has been released exactly once, by S;
\* and if S gave it up through release() it is never released.
C22_OldReleasedBySource ==
  LET d == fn.asg.d
      s == fn.asg.s
      old == fn.asg.old
  IN (old # NullPtr /\ d # s) =>
       /\ (Live(s) /\ old \notin handedOut) =>
            (hs[s].ptr = old /\ hs[s].del = paired[old] /\ Releases(old) = 0)
       /\ (hs[s].st = "dead" /\ old \notin handedOut) =>
            rel[old] = << [h |-> s, del |-> paired[old]] >>
       /\ old \in handedOut => Releases(old) = 0

\* handle 2, declared after handle 1 and so destroyed before it, was
\* assigned from handle 1 while owning a resource; that resource has been
\* released once, by handle 1, and the scope is left
C22_Witness ==
  /\ fn.pc = "left"
  /\ fn.asg = [d |-> 2, s |-> 1, old |-> New(2)]
  /\ rel[New(2)] = << [h |-> 1, del |-> NewDeleter(2)] >>
  /\ Releases(New(1)) = 1

\* ------------------------------------------------------------------ C23
\* C23: a step H = std::move(H) changes no handle and invokes no deleter;
\* afterwards an owning H holds the same resource and deleter until it
\* gives it up or is destroyed, its destruction releases that resource
\* exactly once, and an empty H is empty.
C23_SelfAssign ==
  /\ [][\A h \in LiveHandles :
         Assign(h, h) =>
           (hs' = hs /\ rel' = rel /\ handedOut' = handedOut)]_vars
  /\ [](LET h == fn.asg.d
            old == fn.asg.old
        IN (h # NullPtr /\ fn.asg.s = h) =>
             /\ (Live(h) /\ old \notin handedOut) =>
                  (hs[h].ptr = old /\ Releases(old) = 0
                   /\ (old # NullPtr => hs[h].del = paired[old]))
             /\ (hs[h].st = "dead" /\ old # NullPtr
                 /\ old \notin handedOut) =>
                  rel[old] = << [h |-> h, del |-> paired[old]] >>)

\* handle 1, constructed with a custom deleter, was assigned to itself;
\* the scope is left and its resource has been released once, by it
C23_Witness ==
  /\ fn.pc = "left" /\ fn.stmt = "assign"
  /\ fn.asg = [d |-> 1, s |-> 1, old |-> New(1)]
  /\ rel[New(1)] = << [h |-> 1, del |-> NewDeleter(1)] >>

\* ------------------------------------------------------------------ C24
\* C24: constructing a handle from the pointer get() returned always
\* succeeds and takes that pointer, whoever holds it already, and changes
\* no other handle; and the destruction of any handle that holds a
\* resource invokes its deleter on it, however often a deleter was invoked
\* on that resource before.
C24_NoOwnerCheck ==
  [][/\ \A g \in Unborns :
          AdoptGot(g) =>
            /\ hs'[g].st = "live" /\ hs'[g].ptr = obs.ret
            /\ \A h \in LiveHandles : hs'[h] = hs[h]
            /\ rel' = rel
     /\ \A h \in Owners :
          hs'[h].st = "dead" =>
            rel'[hs[h].ptr] =
              Append(rel[hs[h].ptr], [h |-> h, del |-> hs[h].del])]_vars

\* handle 2 was constructed from the pointer handle 1 held; both have been
\* destroyed and each has invoked its deleter on the one resource
C24_Witness ==
  /\ NoneLive /\ given = {New(1)}
  /\ Releases(New(1)) = 2
  /\ {rel[New(1)][1].h, rel[New(1)][2].h} = {1, 2}

\* ------------------------------------------------------------------ C25
\* C25: a handle just constructed from a null pointer, with or without a
\* custom deleter, answers get() like a default-constructed one (null),
\* is destroyed like one (no deleter invocation) and yields an empty
\* handle when moved from; and on every step the destruction of an empty
\* handle invokes nothing and a move-construction from one gives an empty
\* handle.
C25_NullConstructedIsEmpty ==
  [][/\ \A h \in Unborns :
          (ConstructNull(h) \/ ConstructNullWithDeleter(h)) =>
            /\ hs'[h].st = "live"
            /\ get(hs'[h]) = NullPtr /\ get(hs'[h]) = get(ctor_empty)
            /\ dtor_calls(hs'[h]) = dtor_calls(ctor_empty)
            /\ \A m \in moved_from(hs'[h].del) :
                 ctor_move(hs'[h], m).this.ptr = NullPtr
     /\ \A h \in LiveHandles :
          Empty(h) =>
            /\ hs'[h].st = "dead" => rel' = rel
            /\ \A g \in Unborns :
                 MoveConstruct(g, h) =>
                   (hs'[g].st = "live" /\ hs'[g].ptr = NullPtr)]_vars

\* handle 1 was constructed from a null pointer and a custom deleter,
\* handle 2 move-constructed from it holds that deleter and is empty,
\* handle 1 has been destroyed and no deleter has been invoked
C25_Witness ==
  /\ given = {} /\ hs[1].st = "dead"
  /\ hs[2] = Obj(NullPtr, NewDeleter(1))
  /\ \A p \in Pointers : rel[p] = << >>

\* ------------------------------------------------------------------ C26
\* C26: release() called on an empty handle returns the null pointer,
\* leaves every handle as it was and invokes no deleter.
C26_ReleaseOnEmpty ==
  [][(obs'.op = "release" /\ Empty(obs'.h)) =>
       /\ obs'.ret = NullPtr
       /\ hs' = hs /\ rel' = rel /\ handedOut' = handedOut]_vars

\* release() has been called a second time on handle 1, which a first
\* call had emptied: it returned the null pointer and nothing is released
C26_Witness ==
  /\ obs.op = "release" /\ obs.h = 1 /\ obs.ret = NullPtr
  /\ Empty(1) /\ hs[1].del = NewDeleter(1)
  /\ handedOut = {New(1)} /\ Releases(New(1)) = 0

\* ------------------------------------------------------------------ C28
\* C28: when h owns a resource, unique_ptr<A, D> g(h.release(), d) with d
\* the deleter of h leaves g and h as a move-construction of g from h can
\* leave them: h empty, g holding the resource with the deleter, and no
\* deleter invoked; destroying g then invokes the deleter on the resource
\* and destroying h invokes nothing.  A resource that went through such a
\* round trip is released only by the destruction of the handle holding
\* it, with its deleter, once; and when no handle is alive any more it
\* has been released exactly once.
C28_RoundTripIsMove ==
  /\ [][/\ \A g \in Unborns : \A h \in Owners :
            RoundTrip(g, h) =>
              /\ \E m \in moved_from(hs[h].del) :
                   LET c == ctor_move(hs[h], m) IN
                     hs'[g] = c.this /\ hs'[h] = c.u
              /\ hs'[h].st = "live" /\ hs'[h].ptr = NullPtr
              /\ hs'[g] = Obj(hs[h].ptr, hs[h].del)
              /\ OthersSame(g, h)
              /\ rel' = rel
              /\ dtor_calls(hs'[g]) =
                   << [res |-> hs[h].ptr, del |-> hs[h].del] >>
              /\ dtor_calls(hs'[h]) = << >>
         /\ \A r \in handedOut :
              rel'[r] # rel[r] =>
                \E x \in Owners :
                  /\ hs[x].ptr = r /\ hs'[x].st = "dead"
                  /\ rel[r] = << >>
                  /\ rel'[r] = << [h |-> x, del |-> paired[r]] >>]_vars
  /\ [](NoneLive => \A r \in handedOut : Releases(r) = 1)

\* the resource handle 1 was constructed with went to handle 2 through
\* release() and the owning constructor; both handles are destroyed and
\* the resource was released once, by handle 2 with the deleter of 1
C28_Witness ==
  /\ NoneLive /\ handedOut = {New(1)}
  /\ rel[New(1)] = << [h |-> 2, del |-> NewDeleter(1)] >>

\* ------------------------------------------------------------------ C29
\* C29: when one sequence of constructions, move-constructions,
\* move-assignments, swaps, get() calls and destructions runs on
\* unique_ptr<A, default_deleter<A>> and on the single-parameter
\* unique_ptr<A>, then after every step each handle is in the same stage
\* of its life and holds the same pointer in both runs, get() has
\* returned the same pointer, and every resource has been released by the
\* same handles in the same order; a step releases a resource in one run
\* exactly when it does in the other.
C29_VariantsAgree ==
  /\ [](/\ \A h \in Handles :
            /\ basic.hs[h].st = hs[h].st
            /\ basic.hs[h].ptr = hs[h].ptr
        /\ obs.op = "get" => obs.ret = basic.got
        /\ \A p \in Pointers :
            /\ Len(basic.deleted[p]) = Len(rel[p])
            /\ \A i \in 1 .. Len(rel[p]) :
                 rel[p][i].h = basic.deleted[p][i])
  /\ [][\A p \in Pointers :
          rel'[p] # rel[p] <=> basic'.deleted[p] # basic.deleted[p]]_vars

\* handle 1 and handle 3 were constructed owning and the resources
\* changed hands: all handles are destroyed and in both runs handle 2
\* released the resource of handle 3 and handle 3 that of handle 1
C29_Witness ==
  /\ NoneLive
  /\ rel[New(3)] = << [h |-> 2, del |-> DefaultDel] >>
  /\ basic.deleted[New(3)] = << 2 >>
  /\ Releases(New(1)) = 1 /\ rel[New(1)][1].h = 3
  /\ basic.deleted[New(1)] = << 3 >>

=============================================================================
